---- MODULE Spec2Model ----
(***************************************************************************)
(* Model of the SimplePDF backend (src/backend/main.py): the /api/split    *)
(* handler (page selector parsing, range filtering, packaging) and the     *)
(* /api/compress handler (Ghostscript first, PyPDF2 as fallback).          *)
(*                                                                         *)
(* Python strings are sequences of one-character strings.  The server is   *)
(* observed one request at a time: a request runs from "idle" to "done"    *)
(* through the steps of its handler, then Reset starts over.               *)
(***************************************************************************)
EXTENDS Integers, Sequences, FiniteSets, TLC

VARIABLES pc, req, response, files,
          groups, gi, generated_files, dirFiles, zip, scheduled,
          calls, gs_run, pypdf_run, gs_success, pypdf_success, preset, method,
          out_size, original_size, compressed_size, compression_ratio, ratio_header,
          wm, env, wi, wm_size, draws, text_alpha, image_alpha,
          tasks, input_paths, merged, mi, allow,
          kind, ip, ids, used, temp_dir, touched, seen, pending

vars == <<pc, req, response, files,
          groups, gi, generated_files, dirFiles, zip, scheduled,
          calls, gs_run, pypdf_run, gs_success, pypdf_success, preset, method,
          out_size, original_size, compressed_size, compression_ratio, ratio_header,
          wm, env, wi, wm_size, draws, text_alpha, image_alpha,
          tasks, input_paths, merged, mi, allow,
          kind, ip, ids, used, temp_dir, touched, seen, pending>>

splitVars == <<groups, gi, generated_files, dirFiles, zip>>

compressVars == <<calls, gs_run, pypdf_run, gs_success, pypdf_success, preset, method,
                  out_size, original_size, compressed_size, compression_ratio, ratio_header>>

wmVars == <<wm, env, wi, wm_size, draws, text_alpha, image_alpha>>

mergeVars == <<input_paths, merged, mi>>

\* the state of two requests served concurrently
concVars == <<kind, ip, ids, used, temp_dir, touched, seen, pending>>

\* what a split, compress or watermark request leaves alone
restVars == <<mergeVars, allow, concVars>>

\* what a step that creates no cleanup task leaves alone
otherVars == <<tasks, restVars>>

(***************************************************************************)
(* Bounds of the model.                                                    *)
(***************************************************************************)
MaxLen == 3

MaxPages == 3

MaxSize == 4

MaxFiles == 3

(***************************************************************************)
(* Python string primitives used by split_pdf.                             *)
(***************************************************************************)
Digits == <<"0", "1", "2", "3", "4", "5", "6", "7", "8", "9">>

IsDigit(c) == \E i \in 1..10 : Digits[i] = c

DigitVal(c) == (CHOOSE i \in 1..10 : Digits[i] = c) - 1

IsSpace(c) == c = " "

RECURSIVE LStrip(_)
LStrip(s) == IF s # <<>> /\ IsSpace(Head(s)) THEN LStrip(Tail(s)) ELSE s

RECURSIVE RStrip(_)
RStrip(s) ==
    IF s # <<>> /\ IsSpace(s[Len(s)]) THEN RStrip(SubSeq(s, 1, Len(s) - 1)) ELSE s

\* str.strip()
Strip(s) == RStrip(LStrip(s))

RECURSIVE SplitAcc(_, _, _)
SplitAcc(s, sep, cur) ==
    IF s = <<>> THEN <<cur>>
    ELSE IF Head(s) = sep THEN <<cur>> \o SplitAcc(Tail(s), sep, <<>>)
    ELSE SplitAcc(Tail(s), sep, Append(cur, Head(s)))

\* str.split(sep): always at least one piece
Split(s, sep) == SplitAcc(s, sep, <<>>)

Contains(s, c) == \E i \in 1..Len(s) : s[i] = c

RECURSIVE DecimalValue(_)
DecimalValue(s) ==
    IF s = <<>> THEN 0
    ELSE 10 * DecimalValue(SubSeq(s, 1, Len(s) - 1)) + DigitVal(s[Len(s)])

\* int(s) on the characters of the model: surrounding whitespace is
\* ignored, then a non-empty run of decimal digits is required; anything
\* else raises ValueError.
PyInt(s) ==
    LET t == Strip(s) IN
    IF t # <<>> /\ \A i \in 1..Len(t) : IsDigit(t[i])
    THEN [ok |-> TRUE, val |-> DecimalValue(t)]
    ELSE [ok |-> FALSE, val |-> 0]

RECURSIVE IntStr(_)
\* str(n) for n >= 0
IntStr(n) == IF n < 10 THEN <<Digits[n + 1]>> ELSE IntStr(n \div 10) \o <<Digits[(n % 10) + 1]>>

\* list(range(a, b))
PyRange(a, b) == [i \in 1..(IF b > a THEN b - a ELSE 0) |-> a + i - 1]

(***************************************************************************)
(* Responses.                                                              *)
(***************************************************************************)
NoResponse == [status |-> 0, msg |-> "", arg |-> <<>>]

HTTPException(code, m, a) == [status |-> code, msg |-> m, arg |-> a]

FileResponse == [status |-> 200, msg |-> "", arg |-> <<>>]

(***************************************************************************)
(* split_pdf: the selector parser (main.py 280-315).                       *)
(***************************************************************************)
PageLabel(n) == <<"p", "a", "g", "e", "_">> \o IntStr(n)

PagesLabel(a, b) == <<"p", "a", "g", "e", "s", "_">> \o IntStr(a) \o <<"-">> \o IntStr(b)

\* NoPagesSpecified that also refuses every selector on a document without
\* pages
NoPagesSpecifiedOrEmptyDocument(pages) ==
    pages = <<>> \/ Strip(pages) = <<>> \/ req.total = 0

\* the test of main.py 280
NoPagesSpecified(pages) == pages = <<>> \/ Strip(pages) = <<>>

\* ParseRange with range(start - 1, end - 1): the last page of the range is lost
ParseRangeExclusive(part) ==
    LET pieces == Split(part, "-")
        unpack == Len(pieces) = 2 /\ PyInt(pieces[1]).ok /\ PyInt(pieces[2]).ok
        start  == PyInt(pieces[1]).val
        end    == PyInt(pieces[2]).val
    IN  IF ~unpack
        THEN [err |-> HTTPException(400, "Invalid page range", part), group |-> <<>>]
        ELSE IF start < 1 \/ end < 1
        THEN [err |-> HTTPException(400, "Page numbers must be >= 1", part), group |-> <<>>]
        ELSE IF start > end
        THEN [err |-> HTTPException(400, "Invalid range (start > end)", part), group |-> <<>>]
        ELSE [err |-> NoResponse,
              group |-> <<[label |-> PagesLabel(start, end),
                           indices |-> PyRange(start - 1, end - 1)]>>]

\* the range branch, main.py 292-303
ParseRange(part) ==
    LET pieces == Split(part, "-")
        unpack == Len(pieces) = 2 /\ PyInt(pieces[1]).ok /\ PyInt(pieces[2]).ok
        start  == PyInt(pieces[1]).val
        end    == PyInt(pieces[2]).val
    IN  IF ~unpack
        THEN [err |-> HTTPException(400, "Invalid page range", part), group |-> <<>>]
        ELSE IF start < 1 \/ end < 1
        THEN [err |-> HTTPException(400, "Page numbers must be >= 1", part), group |-> <<>>]
        ELSE IF start > end
        THEN [err |-> HTTPException(400, "Invalid range (start > end)", part), group |-> <<>>]
        ELSE [err |-> NoResponse,
              group |-> <<[label |-> PagesLabel(start, end),
                           indices |-> PyRange(start - 1, end)]>>]

\* ParseSingle without the test page_num < 1
ParseSingleUnchecked(part) ==
    LET r == PyInt(part) IN
    IF ~r.ok
    THEN [err |-> HTTPException(400, "Invalid page number", part), group |-> <<>>]
    ELSE [err |-> NoResponse,
          group |-> <<[label |-> PageLabel(r.val), indices |-> <<r.val - 1>>]>>]

\* the single page branch, main.py 304-312
ParseSingle(part) ==
    LET r == PyInt(part) IN
    IF ~r.ok
    THEN [err |-> HTTPException(400, "Invalid page number", part), group |-> <<>>]
    ELSE IF r.val < 1
    THEN [err |-> HTTPException(400, "Page number must be >= 1", part), group |-> <<>>]
    ELSE [err |-> NoResponse,
          group |-> <<[label |-> PageLabel(r.val), indices |-> <<r.val - 1>>]>>]

\* ParsePart whose errors do not quote the part
ParsePartGeneric(part) ==
    LET r == IF Contains(part, "-") THEN ParseRange(part) ELSE ParseSingle(part)
    IN  [r EXCEPT !.err.arg = <<>>]

\* the dispatch of main.py 292
ParsePart(part) == IF Contains(part, "-") THEN ParseRange(part) ELSE ParseSingle(part)

RECURSIVE ParseLoopDedup(_, _)
\* ParseLoop that skips a group it has already emitted
ParseLoopDedup(parts, acc) ==
    IF parts = <<>> THEN [err |-> NoResponse, groups |-> acc]
    ELSE LET part == Strip(Head(parts)) IN
         IF part = <<>> THEN ParseLoopDedup(Tail(parts), acc)
         ELSE LET r == ParsePart(part) IN
              IF r.err # NoResponse THEN [err |-> r.err, groups |-> acc]
              ELSE IF \E k \in 1..Len(acc) : acc[k] = r.group[1]
              THEN ParseLoopDedup(Tail(parts), acc)
              ELSE ParseLoopDedup(Tail(parts), acc \o r.group)

RECURSIVE ParseLoop(_, _)
\* the loop of main.py 287-312 over the pieces still to read; stops at the
\* first raise
ParseLoop(parts, acc) ==
    IF parts = <<>> THEN [err |-> NoResponse, groups |-> acc]
    ELSE LET part == Strip(Head(parts)) IN
         IF part = <<>> THEN ParseLoop(Tail(parts), acc)
         ELSE LET r == ParsePart(part) IN
              IF r.err # NoResponse THEN [err |-> r.err, groups |-> acc]
              ELSE ParseLoop(Tail(parts), acc \o r.group)

\* ParsePages without the tests of main.py 280 and 314
ParsePagesNoEmptyTest(pages) == ParseLoop(Split(pages, ","), <<>>)

\* main.py 280-315 as a whole
ParsePages(pages) ==
    IF NoPagesSpecified(pages)
    THEN [err |-> HTTPException(400, "No pages specified. Received", pages), groups |-> <<>>]
    ELSE LET r == ParseLoop(Split(pages, ","), <<>>) IN
         IF r.err # NoResponse THEN r
         ELSE IF r.groups = <<>>
         THEN [err |-> HTTPException(400, "No valid pages to extract", <<>>), groups |-> <<>>]
         ELSE r

(***************************************************************************)
(* split_pdf: range filtering and file naming (main.py 321-346).           *)
(***************************************************************************)
\* InDocument with the upper bound off by one
InDocumentInclusive(page_idx, total) == 0 <= page_idx /\ page_idx <= total

\* the test of main.py 326
InDocument(page_idx, total) == 0 <= page_idx /\ page_idx < total

\* the inner loop of main.py 325-333: 1-based numbers of the pages added
\* (writer.add_page is taken to succeed on every page of the opened document)
ValidPages(page_indices, total) ==
    LET Keep(i) == InDocument(i, total)
        kept == SelectSeq(page_indices, Keep)
    IN  [k \in 1..Len(kept) |-> kept[k] + 1]

\* main.py 337-340
OutputFilename(valid_pages) ==
    (IF Len(valid_pages) = 1
     THEN PageLabel(valid_pages[1])
     ELSE PagesLabel(valid_pages[1], valid_pages[Len(valid_pages)]))
    \o <<".", "p", "d", "f">>

\* open(path, "wb") + write: creates or replaces one file of a directory
WriteFile(dir, name, content) ==
    [n \in (DOMAIN dir) \cup {name} |-> IF n = name THEN content ELSE dir[n]]

EmptyDir == [n \in {} |-> <<>>]

(***************************************************************************)
(* Paths under TEMP_DIR (main.py 29, 265-267, 352, 454-456).               *)
(***************************************************************************)
InputPath == <<"input", <<>>>>

OutputDir == <<"split_dir", <<>>>>

GroupPath(name) == <<"split_dir", name>>

ZipPath == <<"zip", <<>>>>

OutputPath == <<"compressed", <<>>>>

(***************************************************************************)
(* Inputs.                                                                 *)
(***************************************************************************)
Alphabet == {"0", "1", "2", "-", ",", " ", "x"}

StringsUpTo(n) == UNION {[1..k -> Alphabet] : k \in 0..n}

\* selectors of the specification and of test_main.py
ExampleSelectors ==
    { <<"1", ",", "3", ",", "5", "-", "1", "0">>,
      <<"1", ",", "3", "-", "5", ",", "7", ",", "9", "-", "1", "0">>,
      <<"1", "-", "2", ",", "3", "-", "5">>,
      <<"1", "-", "1", "0">>,
      <<"5", "-", "1", "0">>,
      <<"5", "-", "2">>,
      <<"9", "9">>,
      <<"1", "-", "1", "0", ",", "1", "-", "3">>,
      <<"3", ",", "3", "-", "1", "0">>,
      <<"2", ",", "1", ",", "2", ",", "2">>,
      <<"1", "-", "2", ",", "x", ",", "3">>,
      <<" ", "2", " ", ",", ",", " ", "1", "-", "3", " ", ",">>,
      <<"i", "n", "v", "a", "l", "i", "d">> }

Selectors == StringsUpTo(MaxLen) \cup ExampleSelectors

PageCounts == 0..MaxPages

\* upload: "ok", "bad_name" (not *.pdf) or "unreadable" (PdfReader raises)
NoRequest ==
    [kind |-> "", upload |-> "", pages |-> <<>>, total |-> 0, given |-> "", level |-> "",
     uploads |-> <<>>, permission |-> ""]

(***************************************************************************)
(* /api/split                                                              *)
(***************************************************************************)
\* main.py 259-260: the upload's name does not end in .pdf
SplitRejectName ==
    /\ pc = "idle"
    /\ req' = [NoRequest EXCEPT !.kind = "split", !.upload = "bad_name"]
    /\ response' = HTTPException(400, "Only PDF files allowed", <<>>)
    /\ pc' = "done"
    /\ UNCHANGED <<files, scheduled, otherVars, splitVars, compressVars, wmVars>>

\* main.py 265-275 and 378-385: the upload is saved, PdfReader raises on
\* it, and the generic handler removes the saved upload and the directory
SplitUnreadable ==
    /\ pc = "idle"
    /\ req' = [NoRequest EXCEPT !.kind = "split", !.upload = "unreadable"]
    /\ files' = (files \cup {InputPath, OutputDir}) \ {InputPath, OutputDir}
    /\ response' = HTTPException(500, "Split failed", <<>>)
    /\ pc' = "done"
    /\ UNCHANGED <<scheduled, otherVars, splitVars, compressVars, wmVars>>

\* main.py 265-278: the upload is saved, the output directory is made and
\* the document is opened
SplitRequest(pages, total) ==
    /\ pc = "idle"
    /\ req' = [NoRequest EXCEPT !.kind = "split", !.upload = "ok", !.pages = pages, !.total = total]
    /\ files' = files \cup {InputPath, OutputDir}
    /\ pc' = "split_parse"
    /\ UNCHANGED <<response, scheduled, otherVars, splitVars, compressVars, wmVars>>

\* SplitParse that extracts the groups read before an invalid token
SplitParseLazy ==
    /\ pc = "split_parse"
    /\ LET r == ParsePages(req.pages) IN
       /\ groups' = r.groups
       /\ IF r.err # NoResponse /\ r.groups = <<>>
          THEN /\ response' = r.err
               /\ pc' = "done"
               /\ gi' = gi
          ELSE /\ response' = r.err
               /\ pc' = "split_extract"
               /\ gi' = 1
    /\ UNCHANGED <<req, files, scheduled, otherVars, generated_files, dirFiles, zip, compressVars, wmVars>>


\* main.py 280-317
SplitParse ==
    /\ pc = "split_parse"
    /\ LET r == ParsePages(req.pages) IN
       /\ groups' = r.groups
       /\ IF r.err # NoResponse
          THEN /\ response' = r.err
               /\ pc' = "done"
               /\ gi' = gi
          ELSE /\ response' = response
               /\ pc' = "split_extract"
               /\ gi' = 1
    /\ UNCHANGED <<req, files, scheduled, otherVars, generated_files, dirFiles, zip, compressVars, wmVars>>

\* main.py 321-346: one turn of the loop over the groups
SplitExtract ==
    /\ pc = "split_extract"
    /\ gi <= Len(groups)
    /\ LET valid_pages == ValidPages(groups[gi].indices, req.total) IN
       IF valid_pages # <<>>
       THEN /\ dirFiles' = WriteFile(dirFiles, OutputFilename(valid_pages), valid_pages)
            /\ generated_files' = Append(generated_files, OutputFilename(valid_pages))
       ELSE UNCHANGED <<dirFiles, generated_files>>
    /\ gi' = gi + 1
    /\ UNCHANGED <<pc, req, response, files, scheduled, otherVars, groups, zip, compressVars, wmVars>>

\* zipf.write(pdf_file, pdf_file.name) for every generated path, main.py 353-355
ZipEntries(paths, dir) ==
    [k \in 1..Len(paths) |-> [name |-> paths[k], content |-> dir[paths[k]]]]

\* NoneGenerated that never fires: an empty archive is returned
NoneGeneratedIgnored(paths) == FALSE

\* the test of main.py 348
NoneGenerated(paths) == paths = <<>>

\* main.py 348-374: after the loop
SplitPackage ==
    /\ pc = "split_extract"
    /\ gi > Len(groups)
    /\ IF NoneGenerated(generated_files)
       THEN /\ response' = HTTPException(400, "No pages could be extracted", <<>>)
            /\ UNCHANGED <<files, scheduled, otherVars, zip, dirFiles>>
       ELSE /\ zip' = ZipEntries(generated_files, dirFiles)
            /\ scheduled' = scheduled \cup {InputPath, ZipPath}
                               \cup {GroupPath(generated_files[k]) : k \in 1..Len(generated_files)}
            /\ tasks' = <<InputPath>>
                           \o [k \in 1..Len(generated_files) |-> GroupPath(generated_files[k])]
                           \o <<ZipPath>>
            /\ UNCHANGED restVars
            /\ files' = (files \cup {ZipPath}) \ {OutputDir}
            /\ dirFiles' = EmptyDir
            /\ response' = FileResponse
    /\ pc' = "done"
    /\ UNCHANGED <<req, groups, gi, generated_files, compressVars, wmVars>>

(***************************************************************************)
(* /api/compress: the two compressors (main.py 387-443).                   *)
(*                                                                         *)
(* What the Ghostscript binary and the PyPDF2 library do is not in the     *)
(* repository: one run of each is a record of the observations the code    *)
(* makes of it, chosen freely.                                             *)
(***************************************************************************)
NoGsRun == [available |-> FALSE, raised |-> FALSE, returncode |-> 0, output_exists |-> FALSE]

\* shutil.which("gs") finds nothing; or subprocess.run raises (timeout
\* after 120 s, OSError) and may leave a partial output; or it returns an
\* exit status, with or without an output file
GsRuns ==
    {NoGsRun}
    \cup [available : {TRUE}, raised : {TRUE}, returncode : {0}, output_exists : BOOLEAN]
    \cup [available : {TRUE}, raised : {FALSE}, returncode : {0, 1}, output_exists : BOOLEAN]

\* QualitySettings whose default is the preset of "high"
QualitySettingsDefaultScreen(level) ==
    CASE level = "low" -> "/printer"
      [] level = "medium" -> "/ebook"
      [] level = "high" -> "/screen"
      [] OTHER -> "/screen"

\* main.py 395-401
QualitySettings(level) ==
    CASE level = "low" -> "/printer"
      [] level = "medium" -> "/ebook"
      [] level = "high" -> "/screen"
      [] OTHER -> "/ebook"

\* main.py 392-423: the value compress_with_ghostscript returns
CompressWithGhostscript(run) ==
    IF ~run.available THEN FALSE
    ELSE IF run.raised THEN FALSE
    ELSE run.returncode = 0 /\ run.output_exists

NoPypdfRun == [reader_raises |-> FALSE, write_raises |-> FALSE]

\* PdfReader raises on an upload it cannot read (always on an empty one);
\* writer.write may raise after the output was opened
PypdfRuns(size) ==
    {r \in [reader_raises : BOOLEAN, write_raises : BOOLEAN] :
        /\ (size = 0 => r.reader_raises)
        /\ (r.reader_raises => ~r.write_raises)}

\* main.py 427-443: the value compress_with_pypdf2 returns
CompressWithPypdf2(run) == ~run.reader_raises /\ ~run.write_raises

\* NeedsFallback that ignores the primary's result: PyPDF2 always runs
NeedsFallbackAlways(gs) == TRUE

\* main.py 468: the fallback is entered only after a failed primary
NeedsFallback(gs) == ~gs

\* MethodName that always names the primary
MethodNameAlwaysPrimary(gs) == "Ghostscript"

\* main.py 478
MethodName(gs) == IF gs THEN "Ghostscript" ELSE "PyPDF2"

\* a float as the quotient num/den of two integers (den > 0)
NoRatio == [num |-> 0, den |-> 1]

\* main.py 476: (1 - compressed_size / original_size) * 100, original > 0
CompressionRatio(original, compressed) ==
    [num |-> 100 * (original - compressed), den |-> original]

\* round-half-even of num/den (den > 0) to an integer
RoundHalfEven(num, den) ==
    LET q == num \div den
        r == num % den
    IN  IF 2 * r < den THEN q
        ELSE IF 2 * r > den THEN q + 1
        ELSE IF q % 2 = 0 THEN q ELSE q + 1

\* main.py 492: f"{compression_ratio:.1f}", as a number of tenths
FormatOneDecimal(ratio) == RoundHalfEven(10 * ratio.num, ratio.den)

(***************************************************************************)
(* /api/compress: the handler (main.py 445-501).                           *)
(***************************************************************************)
LevelInputs == {"low", "medium", "high", "ultra", "<omitted>"}

\* level: str = Form("medium"), main.py 448
FormLevel(given) == IF given = "<omitted>" THEN "medium" ELSE given

UploadSizes == 0..MaxSize

OutputSizes == 1..MaxSize

\* main.py 451-452
CompressRejectName ==
    /\ pc = "idle"
    /\ req' = [NoRequest EXCEPT !.kind = "compress", !.upload = "bad_name"]
    /\ response' = HTTPException(400, "Only PDF files allowed", <<>>)
    /\ pc' = "done"
    /\ UNCHANGED <<files, scheduled, otherVars, splitVars, compressVars, wmVars>>

\* main.py 454-463
CompressRequest(size, given) ==
    /\ pc = "idle"
    /\ req' = [NoRequest EXCEPT !.kind = "compress", !.upload = "ok", !.given = given,
                                !.level = FormLevel(given)]
    /\ original_size' = size
    /\ files' = files \cup {InputPath}
    /\ pc' = "compress_primary"
    /\ UNCHANGED <<response, scheduled, otherVars, splitVars, wmVars, calls, gs_run, pypdf_run, gs_success,
                   pypdf_success, preset, method, out_size, compressed_size, compression_ratio, ratio_header>>

\* main.py 496-501: the generic handler of compress_pdf
CompressionFailed(fs) == fs \ {InputPath, OutputPath}

\* main.py 466-468
CompressTryPrimary(run, size) ==
    /\ pc = "compress_primary"
    /\ calls' = Append(calls, "compress_with_ghostscript")
    /\ gs_run' = run
    /\ preset' = IF run.available THEN QualitySettings(req.level) ELSE preset
    /\ gs_success' = CompressWithGhostscript(run)
    /\ IF run.available /\ run.output_exists
       THEN files' = files \cup {OutputPath} /\ out_size' = size
       ELSE UNCHANGED <<files, out_size>>
    /\ pc' = IF NeedsFallback(gs_success') THEN "compress_fallback" ELSE "compress_finish"
    /\ UNCHANGED <<req, response, scheduled, otherVars, splitVars, wmVars, pypdf_run, pypdf_success, method,
                   original_size, compressed_size, compression_ratio, ratio_header>>

\* main.py 469-473, and 496-501 when both compressors failed
CompressTryFallback(run, size) ==
    /\ pc = "compress_fallback"
    /\ calls' = Append(calls, "compress_with_pypdf2")
    /\ pypdf_run' = run
    /\ pypdf_success' = CompressWithPypdf2(run)
    /\ out_size' = IF run.reader_raises THEN out_size ELSE size
    /\ IF pypdf_success'
       THEN /\ files' = files \cup {OutputPath}
            /\ pc' = "compress_finish"
            /\ UNCHANGED response
       ELSE /\ files' = CompressionFailed(files)
            /\ response' = HTTPException(500, "Compression failed", <<>>)
            /\ pc' = "done"
    /\ UNCHANGED <<req, scheduled, otherVars, splitVars, wmVars, gs_run, gs_success, preset, method,
                   original_size, compressed_size, compression_ratio, ratio_header>>

\* main.py 475-494, and 496-501 when stat() or the division raises
CompressFinish ==
    /\ pc = "compress_finish"
    /\ IF OutputPath \notin files
       THEN /\ files' = CompressionFailed(files)
            /\ response' = HTTPException(500, "Compression failed", <<>>)
            /\ UNCHANGED <<compressed_size, compression_ratio, ratio_header, method, scheduled, otherVars>>
       ELSE IF original_size = 0
       THEN /\ compressed_size' = out_size
            /\ files' = CompressionFailed(files)
            /\ response' = HTTPException(500, "Compression failed", <<>>)
            /\ UNCHANGED <<compression_ratio, ratio_header, method, scheduled, otherVars>>
       ELSE /\ compressed_size' = out_size
            /\ compression_ratio' = CompressionRatio(original_size, compressed_size')
            /\ ratio_header' = FormatOneDecimal(compression_ratio')
            /\ method' = MethodName(gs_success)
            /\ scheduled' = scheduled \cup {InputPath, OutputPath}
            /\ tasks' = <<InputPath, OutputPath>>
            /\ UNCHANGED restVars
            /\ response' = FileResponse
            /\ UNCHANGED files
    /\ pc' = "done"
    /\ UNCHANGED <<req, splitVars, wmVars, calls, gs_run, pypdf_run, gs_success, pypdf_success,
                   preset, out_size, original_size>>

(***************************************************************************)
(* /api/watermark/add: geometry (main.py 1144-1178 for text, 1191-1242     *)
(* for images; the two branches differ only in the gap of the tiling).     *)
(* Sizes and coordinates are integer pixels, a pair is <<x, y>> or         *)
(* <<width, height>>.                                                      *)
(***************************************************************************)
\* main.py 1151-1161, 1217-1227
Margin == 50

\* main.py 1164-1165
TextGap == 100

\* main.py 1230-1231
ImageGap == 50

Positions == {"center", "top-left", "top-right", "bottom-left", "bottom-right", "tile"}

\* FixedOrigin whose right and bottom placements forget the margin
FixedOriginNoMargin(position, img_width, img_height, w, h) ==
    CASE position = "top-left" -> <<Margin, Margin>>
      [] position = "top-right" -> <<img_width - w, Margin>>
      [] position = "bottom-left" -> <<Margin, img_height - h>>
      [] position = "bottom-right" -> <<img_width - w, img_height - h>>
      [] OTHER -> <<(img_width - w) \div 2, (img_height - h) \div 2>>

\* main.py 1147-1161 and 1171-1173 (1213-1227 and 1236-1238): // is the
\* floor division
FixedOrigin(position, img_width, img_height, w, h) ==
    CASE position = "top-left" -> <<Margin, Margin>>
      [] position = "top-right" -> <<img_width - w - Margin, Margin>>
      [] position = "bottom-left" -> <<Margin, img_height - h - Margin>>
      [] position = "bottom-right" -> <<img_width - w - Margin, img_height - h - Margin>>
      [] OTHER -> <<(img_width - w) \div 2, (img_height - h) \div 2>>

\* range(step, stop, step): the first step is skipped
RangeFromStep(stop, step) == [k \in 1..((stop - 1) \div step) |-> k * step]

\* range(0, stop, step) for step > 0
RangeFrom0(stop, step) == [k \in 1..((stop + step - 1) \div step) |-> (k - 1) * step]

\* TileOrigins that runs two steps past the right and bottom edges
TileOriginsTwoBeyond(img_width, img_height, w, h, gap) ==
    LET x_spacing == w + gap
        y_spacing == h + gap
        rows == RangeFrom0(img_height + 2 * y_spacing, y_spacing)
        cols == RangeFrom0(img_width + 2 * x_spacing, x_spacing)
    IN  [k \in 1..(Len(rows) * Len(cols)) |->
            <<cols[((k - 1) % Len(cols)) + 1], rows[((k - 1) \div Len(cols)) + 1]>>]

\* main.py 1164-1169 (1230-1234): the origins of the tiling, row by row
TileOrigins(img_width, img_height, w, h, gap) ==
    LET x_spacing == w + gap
        y_spacing == h + gap
        rows == RangeFrom0(img_height + y_spacing, y_spacing)
        cols == RangeFrom0(img_width + x_spacing, x_spacing)
    IN  [k \in 1..(Len(rows) * Len(cols)) |->
            <<cols[((k - 1) % Len(cols)) + 1], rows[((k - 1) \div Len(cols)) + 1]>>]

\* Placements that also draws the single placement in tile mode
PlacementsTilePlusSingle(position, img_width, img_height, w, h, gap) ==
    IF position = "tile"
    THEN Append(TileOrigins(img_width, img_height, w, h, gap),
                FixedOrigin("center", img_width, img_height, w, h))
    ELSE <<FixedOrigin(position, img_width, img_height, w, h)>>

\* main.py 1147-1178 (1213-1242): the origins drawn on one page, in order;
\* in tile mode x is None and the single draw of 1176-1178 is skipped
Placements(position, img_width, img_height, w, h, gap) ==
    IF position = "tile"
    THEN TileOrigins(img_width, img_height, w, h, gap)
    ELSE <<FixedOrigin(position, img_width, img_height, w, h)>>

(***************************************************************************)
(* /api/watermark/add: scaling of an image watermark (main.py 1191-1201).  *)
(* A float is the quotient num/den of two integers; int() truncates.       *)
(***************************************************************************)
\* int(n * 0.3), main.py 1193-1194
MaxShare(n) == (3 * n) \div 10

MinRatio(a, b) == IF a.num * b.den <= b.num * a.den THEN a ELSE b

\* ScaleRatio without the cap 1.0: a small image is enlarged
ScaleRatioUncapped(img_width, img_height, wm_width, wm_height) ==
    MinRatio([num |-> MaxShare(img_width), den |-> wm_width],
             [num |-> MaxShare(img_height), den |-> wm_height])

\* main.py 1197
ScaleRatio(img_width, img_height, wm_width, wm_height) ==
    MinRatio(MinRatio([num |-> MaxShare(img_width), den |-> wm_width],
                      [num |-> MaxShare(img_height), den |-> wm_height]),
             [num |-> 1, den |-> 1])

\* int(n * ratio), main.py 1198-1199
Truncate(n, ratio) == (n * ratio.num) \div ratio.den

\* main.py 1192-1199: (new_width, new_height)
NewSize(page_size, image_size) ==
    LET ratio == ScaleRatio(page_size[1], page_size[2], image_size[1], image_size[2])
    IN  <<Truncate(image_size[1], ratio), Truncate(image_size[2], ratio)>>

\* main.py 1201: Image.resize raises ValueError for a size below 1 x 1
ResizeRaises(size) == size[1] < 1 \/ size[2] < 1

(***************************************************************************)
(* /api/watermark/add: alpha (main.py 1166, 1177, 1208-1210).  An opacity  *)
(* is a number of tenths; the opacities of the model are those on which    *)
(* the floating-point product truncates like the exact product.            *)
(***************************************************************************)
\* round(p * opacity) in place of int(p * opacity)
RoundedAlpha(p, opacity) == RoundHalfEven(p * opacity, 10)

\* int(p * opacity), main.py 1166, 1177 and 1209
TruncatedAlpha(p, opacity) == (p * opacity) \div 10

\* the alpha values of the pixels of the uploaded watermark image
SourceAlphas == {0, 64, 128, 255}

NoAlpha == [p \in SourceAlphas |-> 0]

\* main.py 1208-1210: the alpha channel after alpha.point(...)
ImageAlpha(opacity) == [p \in SourceAlphas |-> TruncatedAlpha(p, opacity)]

(***************************************************************************)
(* /api/watermark/add: the request (main.py 1052-1080) and what the        *)
(* libraries report (page count and raster size, text box, image size).    *)
(***************************************************************************)
NoWatermark ==
    [pdf_name |-> FALSE, type |-> "", has_text |-> FALSE, has_image |-> FALSE,
     position |-> "", opacity |-> 0, too_large |-> FALSE]

ValidOpacities == {0, 2, 5, 10}

Opacities == ValidOpacities \cup {-1, 11}

WatermarkParams ==
    [pdf_name : BOOLEAN, type : {"text", "image"}, has_text : BOOLEAN, has_image : BOOLEAN,
     position : Positions, opacity : Opacities, too_large : BOOLEAN]

\* WatermarkValidation without the test of the opacity
WatermarkValidationNoOpacity(w) ==
    IF ~w.pdf_name THEN HTTPException(400, "Only PDF files are allowed", <<>>)
    ELSE IF w.type = "text" /\ ~w.has_text
    THEN HTTPException(400, "Text is required for text watermark", <<>>)
    ELSE IF w.type = "image" /\ ~w.has_image
    THEN HTTPException(400, "Image is required for image watermark", <<>>)
    ELSE IF w.too_large THEN HTTPException(400, "File too large. Max 50MB allowed.", <<>>)
    ELSE NoResponse

\* main.py 1064-1080: the tests made before anything is written
WatermarkValidation(w) ==
    IF ~w.pdf_name THEN HTTPException(400, "Only PDF files are allowed", <<>>)
    ELSE IF w.type = "text" /\ ~w.has_text
    THEN HTTPException(400, "Text is required for text watermark", <<>>)
    ELSE IF w.type = "image" /\ ~w.has_image
    THEN HTTPException(400, "Image is required for image watermark", <<>>)
    ELSE IF w.opacity < 0 \/ w.opacity > 10
    THEN HTTPException(400, "Opacity must be between 0 and 1", <<>>)
    ELSE IF w.too_large THEN HTTPException(400, "File too large. Max 50MB allowed.", <<>>)
    ELSE NoResponse

\* pdf_img.size of the rendered pages (all pages of a document alike)
PageSizes == {<<30, 40>>, <<101, 60>>, <<600, 800>>}

\* (text_width, text_height) from draw.textbbox, main.py 1140-1142
TextSizes == {<<20, 0>>, <<41, 10>>, <<200, 100>>, <<700, 30>>}

\* watermark_img.size, main.py 1196
ImageSizes == {<<10, 10>>, <<3, 400>>, <<1000, 1>>, <<1000, 500>>}

NoEnv == [pages |-> 0, page_size |-> <<0, 0>>, text_size |-> <<0, 0>>, image_size |-> <<0, 0>>]

Envs(type) ==
    [pages : 0..MaxPages, page_size : PageSizes,
     text_size : IF type = "text" THEN TextSizes ELSE {<<0, 0>>},
     image_size : IF type = "image" THEN ImageSizes ELSE {<<0, 0>>}]

WmDir == <<"watermark_dir", <<>>>>

WmPagePath(i) == <<"watermark_dir", PageLabel(i) \o <<".", "j", "p", "g">>>>

WmOutputPath == <<"watermarked", <<>>>>

WmImagePath == <<"watermark_img", <<>>>>

\* shutil.rmtree(output_dir)
RmTree(fs) == {f \in fs : f[1] # "watermark_dir"}

\* main.py 1286-1297: the generic handler of add_watermark
WatermarkFailed(fs) == RmTree(fs \ {InputPath, WmOutputPath, WmImagePath})

(***************************************************************************)
(* /api/watermark/add: the handler (main.py 1052-1297).                    *)
(***************************************************************************)
\* main.py 1064-1080
WatermarkReject ==
    /\ pc = "idle"
    /\ \E w \in WatermarkParams :
        /\ WatermarkValidation(w) # NoResponse
        /\ req' = [NoRequest EXCEPT !.kind = "watermark", !.upload = "rejected"]
        /\ wm' = w
        /\ response' = WatermarkValidation(w)
        /\ pc' = "done"
        /\ UNCHANGED <<files, scheduled, otherVars, splitVars, compressVars,
                       env, wi, wm_size, draws, text_alpha, image_alpha>>

\* main.py 1087-1101 and 1286-1297: PdfReader raises on the saved upload
WatermarkUnreadable ==
    /\ pc = "idle"
    /\ \E w \in WatermarkParams :
        /\ WatermarkValidation(w) = NoResponse
        /\ req' = [NoRequest EXCEPT !.kind = "watermark", !.upload = "unreadable"]
        /\ wm' = w
        /\ files' = WatermarkFailed(files \cup {WmDir, InputPath})
        /\ response' = HTTPException(500, "Watermarking failed", <<>>)
        /\ pc' = "done"
        /\ UNCHANGED <<scheduled, otherVars, splitVars, compressVars,
                       env, wi, wm_size, draws, text_alpha, image_alpha>>

\* main.py 1087-1110: the upload is saved, opened and rendered
WatermarkRequest ==
    /\ pc = "idle"
    /\ \E w \in WatermarkParams : \E e \in Envs(w.type) :
        /\ WatermarkValidation(w) = NoResponse
        /\ req' = [NoRequest EXCEPT !.kind = "watermark", !.upload = "ok"]
        /\ wm' = w
        /\ env' = e
        /\ files' = files \cup {WmDir, InputPath}
        /\ IF e.pages = 0
           THEN /\ response' = HTTPException(400, "PDF has no pages", <<>>)
                /\ pc' = "done"
           ELSE /\ response' = response
                /\ pc' = "wm_pages"
        /\ UNCHANGED <<scheduled, otherVars, splitVars, compressVars,
                       wi, wm_size, draws, text_alpha, image_alpha>>

\* main.py 1120-1178 and 1246-1256: one page of a text watermark
WatermarkTextPage ==
    /\ pc = "wm_pages"
    /\ wi < env.pages
    /\ wm.type = "text"
    /\ wm_size' = env.text_size
    /\ draws' = Placements(wm.position, env.page_size[1], env.page_size[2],
                           env.text_size[1], env.text_size[2], TextGap)
    /\ text_alpha' = TruncatedAlpha(255, wm.opacity)
    /\ files' = files \cup {WmPagePath(wi + 1)}
    /\ wi' = wi + 1
    /\ UNCHANGED <<pc, req, response, scheduled, otherVars, splitVars, compressVars, wm, env, image_alpha>>

\* main.py 1180-1256 (and 1286-1297 when resize raises): one page of an
\* image watermark
WatermarkImagePage ==
    /\ pc = "wm_pages"
    /\ wi < env.pages
    /\ wm.type = "image"
    /\ LET saved == IF wi = 0 THEN files \cup {WmImagePath} ELSE files
           new == NewSize(env.page_size, env.image_size)
       IN  /\ wm_size' = new
           /\ IF ResizeRaises(new)
              THEN /\ files' = WatermarkFailed(saved)
                   /\ response' = HTTPException(500, "Watermarking failed", <<>>)
                   /\ pc' = "done"
                   /\ UNCHANGED <<draws, image_alpha, wi>>
              ELSE /\ image_alpha' = ImageAlpha(wm.opacity)
                   /\ draws' = Placements(wm.position, env.page_size[1], env.page_size[2],
                                          new[1], new[2], ImageGap)
                   /\ files' = saved \cup {WmPagePath(wi + 1)}
                   /\ wi' = wi + 1
                   /\ UNCHANGED <<pc, response>>
    /\ UNCHANGED <<req, scheduled, otherVars, splitVars, compressVars, wm, env, text_alpha>>

\* main.py 1258-1282
WatermarkAssemble ==
    /\ pc = "wm_pages"
    /\ wi = env.pages
    /\ files' = RmTree(files \cup {WmOutputPath})
    /\ scheduled' = scheduled \cup {InputPath, WmOutputPath}
                       \cup {WmPagePath(i) : i \in 1..env.pages}
    /\ tasks' = <<InputPath>> \o [i \in 1..env.pages |-> WmPagePath(i)] \o <<WmOutputPath>>
    /\ UNCHANGED restVars
    /\ response' = FileResponse
    /\ pc' = "done"
    /\ UNCHANGED <<req, splitVars, compressVars, wmVars>>

(***************************************************************************)
(* /api/merge (main.py 203-251).  An upload is its file name (does it end  *)
(* in ".pdf") and whether PdfMerger can read it; the merged document is    *)
(* the list of the uploads appended, by their position in the request.     *)
(***************************************************************************)
Uploads == {u \in [pdf_name : BOOLEAN, readable : BOOLEAN] : u.pdf_name \/ u.readable}

UploadLists == UNION {[1..n -> Uploads] : n \in 1..MaxFiles}

\* TooFewFiles that lets a single file through
TooFewFilesNone(n) == n < 1

\* the test of main.py 206
TooFewFiles(n) == n < 2

\* main.py 223: the uploads are saved under names of their own
MergeInputPath(k) == <<"merge_input", IntStr(k)>>

\* main.py 212
MergedPath == <<"merged", <<>>>>

\* main.py 245-251: the handler of merge_pdfs
MergeFailed(fs, paths) == fs \ ({paths[k] : k \in 1..Len(paths)} \cup {MergedPath})

\* main.py 206-207
MergeReject(uploads) ==
    /\ pc = "idle"
    /\ TooFewFiles(Len(uploads))
    /\ req' = [NoRequest EXCEPT !.kind = "merge", !.upload = "rejected", !.uploads = uploads]
    /\ response' = HTTPException(400, "At least 2 files required", <<>>)
    /\ pc' = "done"
    /\ UNCHANGED <<files, scheduled, otherVars, splitVars, compressVars, wmVars>>

\* main.py 209-216
MergeRequest(uploads) ==
    /\ pc = "idle"
    /\ ~TooFewFiles(Len(uploads))
    /\ req' = [NoRequest EXCEPT !.kind = "merge", !.upload = "ok", !.uploads = uploads]
    /\ input_paths' = <<>>
    /\ merged' = <<>>
    /\ mi' = 1
    /\ pc' = "merge_loop"
    /\ UNCHANGED <<response, files, scheduled, tasks, allow, concVars, splitVars, compressVars, wmVars>>

\* main.py 218-229: one turn of the loop over the uploads (245-251 when
\* merger.append raises)
MergeAppend ==
    /\ pc = "merge_loop"
    /\ mi <= Len(req.uploads)
    /\ LET file == req.uploads[mi]
           saved == Append(input_paths, MergeInputPath(mi))
       IN  IF ~file.pdf_name
           THEN /\ mi' = mi + 1
                /\ UNCHANGED <<pc, response, files, input_paths, merged>>
           ELSE /\ input_paths' = saved
                /\ IF file.readable
                   THEN /\ files' = files \cup {MergeInputPath(mi)}
                        /\ merged' = Append(merged, mi)
                        /\ mi' = mi + 1
                        /\ UNCHANGED <<pc, response>>
                   ELSE /\ files' = MergeFailed(files \cup {MergeInputPath(mi)}, saved)
                        /\ response' = HTTPException(500, "Merge failed", <<>>)
                        /\ pc' = "done"
                        /\ UNCHANGED <<merged, mi>>
    /\ UNCHANGED <<req, scheduled, tasks, allow, concVars, splitVars, compressVars, wmVars>>

\* main.py 231-243
MergeWrite ==
    /\ pc = "merge_loop"
    /\ mi > Len(req.uploads)
    /\ files' = files \cup {MergedPath}
    /\ scheduled' = scheduled \cup {input_paths[k] : k \in 1..Len(input_paths)} \cup {MergedPath}
    /\ tasks' = input_paths \o <<MergedPath>>
    /\ response' = FileResponse
    /\ pc' = "done"
    /\ UNCHANGED <<req, restVars, splitVars, compressVars, wmVars>>

(***************************************************************************)
(* The single-upload endpoints with a size limit: pdf-to-excel (main.py    *)
(* 43-154), pdf-to-word (157-201), pdf-info (503-540), pdf-to-ppt          *)
(* (746-845), encrypt (858-973) and decrypt (978-1033).  What the          *)
(* converting library does is an outcome: "ok", "raises", or "refused"     *)
(* for an HTTPException(400) the handler raises on what it found.          *)
(***************************************************************************)
Endpoints == {"pdf-to-excel", "pdf-to-word", "pdf-info", "pdf-to-ppt", "encrypt", "decrypt"}

\* main.py 514-519: the size is tested inside the try block; elsewhere
\* before it
SizeTestInsideTry(ep) == ep = "pdf-info"

\* the handler has "except HTTPException: raise" (main.py 146, 837, 965, 1025)
ReRaises(ep) == ep \in {"pdf-to-excel", "pdf-to-ppt", "encrypt", "decrypt"}

\* main.py 47, 162, 507, 750, 866, 985
NameDetail(ep) ==
    IF ep = "pdf-info" THEN "Only PDF files allowed" ELSE "Only PDF files are allowed"

\* main.py 154, 201, 540, 845, 973, 1033
FailureDetail(ep) ==
    CASE ep = "pdf-info" -> "Failed to read PDF"
      [] ep = "encrypt" -> "Encryption failed"
      [] ep = "decrypt" -> "Decryption failed"
      [] OTHER -> "Conversion failed"

\* main.py 90, 777, 1008
RefusalDetail(ep) ==
    CASE ep = "pdf-to-excel" -> "No tables found in PDF"
      [] ep = "pdf-to-ppt" -> "PDF has no pages"
      [] OTHER -> "Incorrect password"

Outcomes(ep) ==
    {"ok", "raises"}
       \cup (IF ep \in {"pdf-to-excel", "pdf-to-ppt", "decrypt"} THEN {"refused"} ELSE {})

\* what the client receives for an HTTPException raised inside the try
\* block: "except Exception" catches it unless the handler re-raises
RaisedInsideTry(ep, exc) ==
    IF ReRaises(ep) THEN exc ELSE HTTPException(500, FailureDetail(ep), <<>>)

\* main.py 52, 167, 519, 755, 871, 990
TooLarge(ep) ==
    LET exc == HTTPException(400, "File too large. Max 50MB allowed.", <<>>)
    IN  IF SizeTestInsideTry(ep) THEN RaisedInsideTry(ep, exc) ELSE exc

\* the output file of the endpoint (xlsx, docx, pptx, encrypted_, decrypted_)
ConvertedPath == <<"converted", <<>>>>

\* main.py 46-47, 161-162, 506-507, 749-750, 865-866, 984-985
UploadRejectName(ep) ==
    /\ pc = "idle"
    /\ req' = [NoRequest EXCEPT !.kind = ep, !.upload = "rejected"]
    /\ response' = HTTPException(400, NameDetail(ep), <<>>)
    /\ pc' = "done"
    /\ UNCHANGED <<files, scheduled, otherVars, splitVars, compressVars, wmVars>>

\* main.py 50-52, 165-167, 515-519 (and 537-540), 753-755, 869-871, 988-990
UploadTooLarge(ep) ==
    /\ pc = "idle"
    /\ req' = [NoRequest EXCEPT !.kind = ep, !.upload = "too_large"]
    /\ response' = TooLarge(ep)
    /\ pc' = "done"
    /\ UNCHANGED <<files, scheduled, otherVars, splitVars, compressVars, wmVars>>

\* the rest of a handler on an upload within the limit: the upload is
\* saved and converted; pdf-info deletes its copy at once (main.py 527-528)
UploadProcess(ep, outcome) ==
    /\ pc = "idle"
    /\ ep # "encrypt"
    /\ outcome \in Outcomes(ep)
    /\ req' = [NoRequest EXCEPT !.kind = ep, !.upload = "ok"]
    /\ IF outcome = "ok"
       THEN /\ response' = FileResponse
            /\ IF ep = "pdf-info"
               THEN UNCHANGED <<files, scheduled, tasks>>
               ELSE /\ files' = files \cup {InputPath, ConvertedPath}
                    /\ scheduled' = scheduled \cup {InputPath, ConvertedPath}
                    /\ tasks' = <<InputPath, ConvertedPath>>
       ELSE IF outcome = "raises"
       THEN /\ response' = HTTPException(500, FailureDetail(ep), <<>>)
            /\ files' = files \ {InputPath, ConvertedPath}
            /\ UNCHANGED <<scheduled, tasks>>
       ELSE /\ response' = RaisedInsideTry(ep, HTTPException(400, RefusalDetail(ep), <<>>))
            /\ files' = files \cup {InputPath}
            /\ UNCHANGED <<scheduled, tasks>>
    /\ pc' = "done"
    /\ UNCHANGED <<restVars, splitVars, compressVars, wmVars>>

(***************************************************************************)
(* /api/protect/encrypt: the permissions (main.py 850-856, 898-947).       *)
(***************************************************************************)
PermissionValues == {"all", "no_print", "no_copy", "no_edit", "no_print_copy"}

NoPermissions ==
    [accessibility |-> FALSE, extract |-> FALSE, modify_annotation |-> FALSE,
     modify_assembly |-> FALSE, modify_form |-> FALSE, modify_other |-> FALSE,
     print_lowres |-> FALSE, print_highres |-> FALSE]

\* main.py 898-928: allow_print, allow_modify, allow_copy, allow_annot
AllowFlags(permission) ==
    CASE permission = "all" ->
            [print |-> TRUE, modify |-> TRUE, copy |-> TRUE, annot |-> TRUE]
      [] permission = "no_print" ->
            [print |-> FALSE, modify |-> TRUE, copy |-> TRUE, annot |-> TRUE]
      [] permission = "no_copy" ->
            [print |-> TRUE, modify |-> TRUE, copy |-> FALSE, annot |-> TRUE]
      [] permission = "no_edit" ->
            [print |-> TRUE, modify |-> FALSE, copy |-> TRUE, annot |-> FALSE]
      [] permission = "no_print_copy" ->
            [print |-> FALSE, modify |-> TRUE, copy |-> FALSE, annot |-> TRUE]
      [] OTHER ->
            [print |-> TRUE, modify |-> TRUE, copy |-> TRUE, annot |-> TRUE]

\* main.py 937-946: the arguments of pikepdf.Permissions
Permissions(permission) ==
    LET a == AllowFlags(permission) IN
    [accessibility |-> TRUE, extract |-> a.copy, modify_annotation |-> a.annot,
     modify_assembly |-> FALSE, modify_form |-> a.annot, modify_other |-> a.modify,
     print_lowres |-> a.print, print_highres |-> a.print]

\* main.py 873-973 on an upload within the limit
EncryptRequest(permission, saves) ==
    /\ pc = "idle"
    /\ req' = [NoRequest EXCEPT !.kind = "encrypt", !.upload = "ok", !.permission = permission]
    /\ IF saves
       THEN /\ allow' = Permissions(permission)
            /\ files' = files \cup {InputPath, ConvertedPath}
            /\ scheduled' = scheduled \cup {InputPath, ConvertedPath}
            /\ tasks' = <<InputPath, ConvertedPath>>
            /\ response' = FileResponse
       ELSE /\ response' = HTTPException(500, FailureDetail("encrypt"), <<>>)
            /\ files' = files \ {InputPath, ConvertedPath}
            /\ UNCHANGED <<allow, scheduled, tasks>>
    /\ pc' = "done"
    /\ UNCHANGED <<mergeVars, concVars, splitVars, compressVars, wmVars>>

(***************************************************************************)
(* cleanup_file (main.py 33-41): the deletion tasks a handler created run  *)
(* after it has answered, in the order of their creation.                  *)
(***************************************************************************)
\* file_path.unlink() when the path exists
Unlink(fs, path) == fs \ {path}

CleanupFile ==
    /\ pc \in {"done", "cleanup"}
    /\ tasks # <<>>
    /\ files' = Unlink(files, Head(tasks))
    /\ tasks' = Tail(tasks)
    /\ pc' = "cleanup"
    /\ UNCHANGED <<req, response, scheduled, restVars, splitVars, compressVars, wmVars>>

(***************************************************************************)
(* Two requests served concurrently.  Each handler is the list of its      *)
(* accesses to the temp directory, in the order of the code; a path is     *)
(* <<prefix, id, suffix>> with the id one of the uuid4 values the request  *)
(* drew (named here by its position among them).  A step of one request is *)
(* one access, and the steps of the two requests interleave freely.  The   *)
(* temp directory maps a path to the request whose data the file holds.    *)
(***************************************************************************)
Requests == {1, 2}

Kinds == {"split", "compress", "watermark", "merge"}

\* NewId that returns the same value on every call
NewIdFixed(drawn) == 1

\* uuid.uuid4() (main.py 211, 223, 265, 454, 1087): a value that no earlier
\* call returned
NewId(drawn) == Cardinality(drawn) + 1

Uuid4 == [op |-> "uuid4", path |-> <<>>]

WriteOp(path) == [op |-> "write", path |-> path]

ReadOp(path) == [op |-> "read", path |-> path]

CreateTask(path) == [op |-> "create_task", path |-> path]

RmTreeOp(path) == [op |-> "rmtree", path |-> path]

\* the accesses of a handler on its successful path
Program(k) ==
    CASE k = "split" ->
            \* main.py 265-374
            << Uuid4,
               WriteOp(<<"", 1, ".pdf">>), ReadOp(<<"", 1, ".pdf">>),
               WriteOp(<<"split_", 1, "/page_1.pdf">>),
               WriteOp(<<"split_", 1, ".zip">>), ReadOp(<<"split_", 1, "/page_1.pdf">>),
               CreateTask(<<"", 1, ".pdf">>), CreateTask(<<"split_", 1, "/page_1.pdf">>),
               CreateTask(<<"split_", 1, ".zip">>),
               RmTreeOp(<<"split_", 1, "">>),
               ReadOp(<<"split_", 1, ".zip">>) >>
      [] k = "compress" ->
            \* main.py 454-501
            << Uuid4,
               WriteOp(<<"", 1, ".pdf">>), ReadOp(<<"", 1, ".pdf">>),
               WriteOp(<<"compressed_", 1, ".pdf">>), ReadOp(<<"compressed_", 1, ".pdf">>),
               CreateTask(<<"", 1, ".pdf">>), CreateTask(<<"compressed_", 1, ".pdf">>),
               ReadOp(<<"compressed_", 1, ".pdf">>) >>
      [] k = "watermark" ->
            \* main.py 1087-1282, image watermark
            << Uuid4,
               WriteOp(<<"", 1, ".pdf">>), ReadOp(<<"", 1, ".pdf">>),
               WriteOp(<<"watermark_img_", 1, ".png">>), ReadOp(<<"watermark_img_", 1, ".png">>),
               WriteOp(<<"watermark_", 1, "/page_1.png">>),
               ReadOp(<<"watermark_", 1, "/page_1.png">>),
               WriteOp(<<"watermarked_", 1, ".pdf">>),
               CreateTask(<<"", 1, ".pdf">>), CreateTask(<<"watermark_", 1, "/page_1.png">>),
               CreateTask(<<"watermarked_", 1, ".pdf">>),
               RmTreeOp(<<"watermark_", 1, "">>),
               ReadOp(<<"watermarked_", 1, ".pdf">>) >>
      [] OTHER ->
            \* main.py 211-243, two uploads
            << Uuid4,
               Uuid4, WriteOp(<<"", 2, ".pdf">>), ReadOp(<<"", 2, ".pdf">>),
               Uuid4, WriteOp(<<"", 3, ".pdf">>), ReadOp(<<"", 3, ".pdf">>),
               WriteOp(<<"merged_", 1, ".pdf">>),
               CreateTask(<<"", 2, ".pdf">>), CreateTask(<<"", 3, ".pdf">>),
               CreateTask(<<"merged_", 1, ".pdf">>),
               ReadOp(<<"merged_", 1, ".pdf">>) >>

\* the path a request means: the id is the one it drew
Resolve(path, drawn) == <<path[1], drawn[path[2]], path[3]>>

Running(r) == kind[r] # "" /\ ip[r] <= Len(Program(kind[r]))

Finished(r) == kind[r] # "" /\ ip[r] > Len(Program(kind[r]))

Current(r) == Program(kind[r])[ip[r]]

CurrentPath(r) == Resolve(Current(r).path, ids[r])

\* whose data the file at the path holds; 0 when there is no such file
Holder(dir, path) ==
    IF \E e \in dir : e[1] = path THEN (CHOOSE e \in dir : e[1] = path)[2] ELSE 0

Remove(dir, path) == {e \in dir : e[1] # path}

\* the file of the path is inside the directory
Inside(path, d) == path[1] = d[1] /\ path[2] = d[2] /\ path[3] \notin {d[3], ".zip", ".pdf", ".png"}

mainVars == <<pc, req, response, files, scheduled, tasks, mergeVars, allow,
              splitVars, compressVars, wmVars>>

\* a request arrives
Arrive(r, k) ==
    /\ kind[r] = ""
    /\ kind' = [kind EXCEPT ![r] = k]
    /\ ip' = [ip EXCEPT ![r] = 1]
    /\ UNCHANGED <<ids, used, temp_dir, touched, seen, pending, mainVars>>

\* file_id = str(uuid.uuid4())
DrawId(r) ==
    /\ Running(r)
    /\ Current(r).op = "uuid4"
    /\ ids' = [ids EXCEPT ![r] = Append(@, NewId(used))]
    /\ used' = used \cup {NewId(used)}
    /\ ip' = [ip EXCEPT ![r] = @ + 1]
    /\ UNCHANGED <<kind, temp_dir, touched, seen, pending, mainVars>>

\* open(path, "wb") and the writes of the libraries
WriteStep(r) ==
    /\ Running(r)
    /\ Current(r).op = "write"
    /\ temp_dir' = Remove(temp_dir, CurrentPath(r)) \cup {<<CurrentPath(r), r>>}
    /\ touched' = [touched EXCEPT ![r] = @ \cup {CurrentPath(r)}]
    /\ ip' = [ip EXCEPT ![r] = @ + 1]
    /\ UNCHANGED <<kind, ids, used, seen, pending, mainVars>>

\* PdfReader(path), zipf.write(path), FileResponse(path)
ReadStep(r) ==
    /\ Running(r)
    /\ Current(r).op = "read"
    /\ seen' = [seen EXCEPT ![r] = @ \cup {Holder(temp_dir, CurrentPath(r))}]
    /\ touched' = [touched EXCEPT ![r] = @ \cup {CurrentPath(r)}]
    /\ ip' = [ip EXCEPT ![r] = @ + 1]
    /\ UNCHANGED <<kind, ids, used, temp_dir, pending, mainVars>>

\* asyncio.create_task(cleanup_file(path))
CreateTaskStep(r) ==
    /\ Running(r)
    /\ Current(r).op = "create_task"
    /\ pending' = [pending EXCEPT ![r] = Append(@, CurrentPath(r))]
    /\ ip' = [ip EXCEPT ![r] = @ + 1]
    /\ UNCHANGED <<kind, ids, used, temp_dir, touched, seen, mainVars>>

\* shutil.rmtree(output_dir)
RmTreeStep(r) ==
    /\ Running(r)
    /\ Current(r).op = "rmtree"
    /\ temp_dir' = {e \in temp_dir : ~Inside(e[1], CurrentPath(r))}
    /\ touched' = [touched EXCEPT ![r] = @ \cup {CurrentPath(r)}
                                         \cup {e[1] : e \in {x \in temp_dir : Inside(x[1], CurrentPath(r))}}]
    /\ ip' = [ip EXCEPT ![r] = @ + 1]
    /\ UNCHANGED <<kind, ids, used, seen, pending, mainVars>>

\* cleanup_file (main.py 33-41) of a task the request created, once the
\* response has been sent
CleanupStep(r) ==
    /\ Finished(r)
    /\ pending[r] # <<>>
    /\ temp_dir' = Remove(temp_dir, Head(pending[r]))
    /\ touched' = [touched EXCEPT ![r] = @ \cup {Head(pending[r])}]
    /\ pending' = [pending EXCEPT ![r] = Tail(@)]
    /\ UNCHANGED <<kind, ip, ids, used, seen, mainVars>>

ConcNext ==
    \/ \E r \in Requests, k \in Kinds : Arrive(r, k)
    \/ \E r \in Requests : DrawId(r)
    \/ \E r \in Requests : WriteStep(r)
    \/ \E r \in Requests : ReadStep(r)
    \/ \E r \in Requests : CreateTaskStep(r)
    \/ \E r \in Requests : RmTreeStep(r)
    \/ \E r \in Requests : CleanupStep(r)

(***************************************************************************)
(* Initial state: the server is idle and the temp directory is empty.      *)
(***************************************************************************)
Init ==
    /\ pc = "idle"
    /\ req = NoRequest
    /\ response = NoResponse
    /\ files = {}
    /\ groups = <<>>
    /\ gi = 0
    /\ generated_files = <<>>
    /\ dirFiles = EmptyDir
    /\ zip = <<>>
    /\ scheduled = {}
    /\ calls = <<>>
    /\ gs_run = NoGsRun
    /\ pypdf_run = NoPypdfRun
    /\ out_size = 0
    /\ gs_success = FALSE
    /\ pypdf_success = FALSE
    /\ preset = ""
    /\ method = ""
    /\ original_size = 0
    /\ compressed_size = 0
    /\ compression_ratio = NoRatio
    /\ ratio_header = 0
    /\ wm = NoWatermark
    /\ env = NoEnv
    /\ wi = 0
    /\ wm_size = <<0, 0>>
    /\ draws = <<>>
    /\ text_alpha = 0
    /\ image_alpha = NoAlpha
    /\ tasks = <<>>
    /\ input_paths = <<>>
    /\ merged = <<>>
    /\ mi = 0
    /\ allow = NoPermissions
    /\ kind = [r \in Requests |-> ""]
    /\ ip = [r \in Requests |-> 0]
    /\ ids = [r \in Requests |-> <<>>]
    /\ used = {}
    /\ temp_dir = {}
    /\ touched = [r \in Requests |-> {}]
    /\ seen = [r \in Requests |-> {}]
    /\ pending = [r \in Requests |-> <<>>]

\* the next request is observed from a fresh temp directory
Reset ==
    /\ pc \in {"done", "cleanup"}
    /\ pc' = "idle"
    /\ req' = NoRequest
    /\ response' = NoResponse
    /\ files' = {}
    /\ groups' = <<>>
    /\ gi' = 0
    /\ generated_files' = <<>>
    /\ dirFiles' = EmptyDir
    /\ zip' = <<>>
    /\ scheduled' = {}
    /\ calls' = <<>>
    /\ gs_run' = NoGsRun
    /\ pypdf_run' = NoPypdfRun
    /\ out_size' = 0
    /\ gs_success' = FALSE
    /\ pypdf_success' = FALSE
    /\ preset' = ""
    /\ method' = ""
    /\ original_size' = 0
    /\ compressed_size' = 0
    /\ compression_ratio' = NoRatio
    /\ ratio_header' = 0
    /\ wm' = NoWatermark
    /\ env' = NoEnv
    /\ wi' = 0
    /\ wm_size' = <<0, 0>>
    /\ draws' = <<>>
    /\ text_alpha' = 0
    /\ image_alpha' = NoAlpha
    /\ tasks' = <<>>
    /\ input_paths' = <<>>
    /\ merged' = <<>>
    /\ mi' = 0
    /\ allow' = NoPermissions
    /\ UNCHANGED concVars

Next ==
    \/ SplitRejectName
    \/ SplitUnreadable
    \/ \E pages \in Selectors, total \in PageCounts : SplitRequest(pages, total)
    \/ SplitParse
    \/ SplitExtract
    \/ SplitPackage
    \/ CompressRejectName
    \/ \E size \in UploadSizes, given \in LevelInputs : CompressRequest(size, given)
    \/ \E run \in GsRuns, size \in OutputSizes : CompressTryPrimary(run, size)
    \/ \E run \in PypdfRuns(original_size), size \in OutputSizes : CompressTryFallback(run, size)
    \/ CompressFinish
    \/ WatermarkReject
    \/ WatermarkUnreadable
    \/ WatermarkRequest
    \/ WatermarkTextPage
    \/ WatermarkImagePage
    \/ WatermarkAssemble
    \/ \E uploads \in UploadLists : MergeReject(uploads)
    \/ \E uploads \in UploadLists : MergeRequest(uploads)
    \/ MergeAppend
    \/ MergeWrite
    \/ \E ep \in Endpoints : UploadRejectName(ep)
    \/ \E ep \in Endpoints : UploadTooLarge(ep)
    \/ \E ep \in Endpoints, outcome \in {"ok", "raises", "refused"} : UploadProcess(ep, outcome)
    \/ \E permission \in PermissionValues, saves \in BOOLEAN : EncryptRequest(permission, saves)
    \/ CleanupFile
    \/ Reset

Spec == Init /\ [][Next]_vars

ConcSpec == Init /\ [][ConcNext]_vars

(***************************************************************************)
(* Vocabulary of the claims about the selector.                            *)
(***************************************************************************)
NonEmpty(t) == t # <<>>

\* the non-empty comma separated tokens of a selector, trimmed, in order
Tokens(pages) ==
    LET pieces == Split(pages, ",")
    IN  SelectSeq([k \in 1..Len(pieces) |-> Strip(pieces[k])], NonEmpty)

\* text of an integer: a non-empty run of digits, possibly padded by blanks
IsIntegerText(t) ==
    \E i, j \in 1..Len(t) :
        /\ i <= j
        /\ \A k \in 1..Len(t) : IF i <= k /\ k <= j THEN IsDigit(t[k]) ELSE t[k] = " "

IntegerValue(t) == DecimalValue(SelectSeq(t, IsDigit))

IsPageToken(t) == IsIntegerText(t) /\ IntegerValue(t) >= 1

Left(t, i) == SubSeq(t, 1, i - 1)

Right(t, i) == SubSeq(t, i + 1, Len(t))

IsRangeAt(t, i) ==
    /\ t[i] = "-"
    /\ IsIntegerText(Left(t, i))
    /\ IsIntegerText(Right(t, i))
    /\ 1 <= IntegerValue(Left(t, i))
    /\ IntegerValue(Left(t, i)) <= IntegerValue(Right(t, i))

IsRangeToken(t) == \E i \in 1..Len(t) : IsRangeAt(t, i)

WellFormed(t) == IsPageToken(t) \/ IsRangeToken(t)

AllWellFormed(toks) == \A k \in 1..Len(toks) : WellFormed(toks[k])

\* the 0-based indices a well-formed token asks for
TokenIndices(t) ==
    IF IsPageToken(t) THEN <<IntegerValue(t) - 1>>
    ELSE LET i == CHOOSE i \in 1..Len(t) : IsRangeAt(t, i)
             a == IntegerValue(Left(t, i))
             b == IntegerValue(Right(t, i))
         IN  [k \in 1..(b - a + 1) |-> a - 2 + k]

\* the details of the 400 responses raised while reading the selector
InvalidSelectorMsgs ==
    {"No pages specified. Received", "Invalid page range", "Page numbers must be >= 1",
     "Invalid range (start > end)", "Invalid page number", "Page number must be >= 1",
     "No valid pages to extract"}

InvalidSelector == response.status = 400 /\ response.msg \in InvalidSelectorMsgs

\* a split request on a readable document whose selector has been read
Parsed == req.kind = "split" /\ req.upload = "ok" /\ pc \in {"split_extract", "done"}

SplitDone == req.kind = "split" /\ req.upload = "ok" /\ pc = "done"

Sel_1_3_5to10 == <<"1", ",", "3", ",", "5", "-", "1", "0">>

(***************************************************************************)
(* C1: when every non-empty token of the selector is well-formed, the      *)
(* parser emits exactly one group per non-empty token, in token order; a   *)
(* bare integer n gives the index [n-1], a range a-b the indices           *)
(* a-1..b-1; with at least one token the selector is not rejected.         *)
(***************************************************************************)
C1_GroupPerToken ==
    LET toks == Tokens(req.pages) IN
    (Parsed /\ AllWellFormed(toks)) =>
        /\ Len(groups) = Len(toks)
        /\ \A k \in 1..Len(toks) : groups[k].indices = TokenIndices(toks[k])
        /\ (toks # <<>> => ~InvalidSelector)

C1_Witness ==
    /\ Parsed
    /\ req.pages = Sel_1_3_5to10
    /\ Len(groups) = 3
    /\ groups[1].indices = <<0>>
    /\ groups[2].indices = <<2>>
    /\ groups[3].indices = <<4, 5, 6, 7, 8, 9>>

(***************************************************************************)
(* C2: when some non-empty token, at any position, is neither an integer   *)
(* n >= 1 nor a pair a-b of integers with 1 <= a <= b, the request is      *)
(* rejected with a 400 raised by the parser, and nothing is extracted.     *)
(***************************************************************************)
C2_InvalidTokenRejected ==
    LET toks == Tokens(req.pages) IN
    (Parsed /\ ~AllWellFormed(toks)) =>
        /\ pc = "done"
        /\ InvalidSelector
        /\ generated_files = <<>>

C2_Witness ==
    /\ Parsed
    /\ req.pages = <<"1", "-", "2", ",", "x", ",", "3">>
    /\ InvalidSelector
    /\ response.arg = <<"x">>

(***************************************************************************)
(* C3: a selector that is empty or made of whitespace only is rejected     *)
(* with a 400 raised by the parser; no per-group PDF and no ZIP exists.    *)
(***************************************************************************)
IsBlank(pages) == \A i \in 1..Len(pages) : pages[i] = " "

C3_BlankSelectorRejected ==
    (Parsed /\ IsBlank(req.pages)) =>
        /\ pc = "done"
        /\ InvalidSelector
        /\ response.msg = "No pages specified. Received"
        /\ generated_files = <<>>
        /\ dirFiles = EmptyDir
        /\ zip = <<>>
        /\ ZipPath \notin files

C3_Witness ==
    /\ Parsed
    /\ req.pages = <<" ", " ", " ">>
    /\ response.status = 400

(***************************************************************************)
(* C4: filtering keeps, for every group, exactly its indices i with        *)
(* 0 <= i < totalPages in their order, drops a group only when none        *)
(* survives, keeps the surviving groups in parse order, and the request    *)
(* succeeds when a group survives.                                         *)
(***************************************************************************)
Surviving(indices, total) ==
    LET InRange(i) == 0 <= i /\ i < total IN SelectSeq(indices, InRange)

\* the surviving index lists of the non-empty groups, in group order
SurvivingGroups(gs, total) ==
    SelectSeq([k \in 1..Len(gs) |-> Surviving(gs[k].indices, total)], NonEmpty)

ZeroBased(content) == [k \in 1..Len(content) |-> content[k] - 1]

C4_FilterKeepsInRange ==
    (SplitDone /\ ~InvalidSelector) =>
        LET expected == SurvivingGroups(groups, req.total) IN
        /\ (expected # <<>> <=> response.status = 200)
        /\ response.status = 200 =>
              /\ Len(zip) = Len(expected)
              /\ \A k \in 1..Len(expected) : ZeroBased(zip[k].content) = expected[k]

C4_Witness ==
    /\ SplitDone
    /\ req.pages = <<"1", "-", "1", "0">>
    /\ req.total = 3
    /\ response.status = 200
    /\ Len(zip) = 1
    /\ zip[1].content = <<1, 2, 3>>

(***************************************************************************)
(* C5: when the selector is well-formed but no group keeps an index after  *)
(* filtering, the request fails with 400 "No pages could be extracted"     *)
(* and no archive is written.                                              *)
(***************************************************************************)
NothingSurvives(toks, total) ==
    \A k \in 1..Len(toks) : Surviving(TokenIndices(toks[k]), total) = <<>>

C5_NoValidPages ==
    LET toks == Tokens(req.pages) IN
    (SplitDone /\ toks # <<>> /\ AllWellFormed(toks) /\ NothingSurvives(toks, req.total)) =>
        /\ response.status = 400
        /\ response.msg = "No pages could be extracted"
        /\ zip = <<>>
        /\ ZipPath \notin files

C5_Witness ==
    /\ SplitDone
    /\ req.pages = <<"9", "9">>
    /\ req.total = 3
    /\ response.status = 400
    /\ response.msg = "No pages could be extracted"

(***************************************************************************)
(* C6: parsing never deduplicates: equal tokens give equal groups (label   *)
(* and indices), one per occurrence and at the occurrence's position, and  *)
(* a repeated token is not an error.                                       *)
(***************************************************************************)
C6_NoDeduplication ==
    LET toks == Tokens(req.pages) IN
    (Parsed /\ AllWellFormed(toks)) =>
        /\ Len(groups) = Len(toks)
        /\ \A i, j \in 1..Len(toks) : toks[i] = toks[j] => groups[i] = groups[j]
        /\ (toks # <<>> => ~InvalidSelector)

C6_Witness ==
    /\ Parsed
    /\ req.pages = <<"2", ",", "1", ",", "2", ",", "2">>
    /\ Len(groups) = 4
    /\ groups[1] = groups[3]
    /\ groups[3] = groups[4]
    /\ groups[1].label = <<"p", "a", "g", "e", "_", "2">>
    /\ groups[2] # groups[1]

(***************************************************************************)
(* Vocabulary of the claims about compression.                             *)
(***************************************************************************)
\* a compress request whose upload passed the name test
Compressing == req.kind = "compress" /\ req.upload = "ok"

CompressDone == Compressing /\ pc = "done"

PrimaryCall == "compress_with_ghostscript"

FallbackCall == "compress_with_pypdf2"

(***************************************************************************)
(* C7: every step of a compress request follows                            *)
(* TryPrimary -> (Done | TryFallback -> (Done | Fail)): the primary is     *)
(* called first and exactly once, the fallback at most once and only       *)
(* after the primary returned failure, never after it succeeded, and no    *)
(* path is called a second time.                                           *)
(***************************************************************************)
C7_Step ==
    /\ (pc = "idle" /\ pc' = "compress_primary") => calls' = <<>>
    /\ pc = "compress_primary" =>
          /\ calls = <<>>
          /\ calls' = <<PrimaryCall>>
          /\ pc' \in {"compress_fallback", "compress_finish"}
          /\ (pc' = "compress_fallback" <=> ~gs_success')
    /\ pc = "compress_fallback" =>
          /\ ~gs_success
          /\ calls = <<PrimaryCall>>
          /\ calls' = <<PrimaryCall, FallbackCall>>
          /\ gs_success' = gs_success
          /\ pc' \in {"compress_finish", "done"}
          /\ (pc' = "done" <=> ~pypdf_success')
    /\ pc = "compress_finish" =>
          /\ gs_success \/ pypdf_success
          /\ calls' = calls
          /\ pc' = "done"
    /\ (pc = "done" /\ Compressing) =>
          /\ calls \in {<<PrimaryCall>>, <<PrimaryCall, FallbackCall>>}
          /\ (gs_success => calls = <<PrimaryCall>>)

C7_PrimaryThenFallback == [][C7_Step]_vars

C7_Witness ==
    /\ CompressDone
    /\ calls = <<PrimaryCall, FallbackCall>>
    /\ ~gs_success
    /\ pypdf_success
    /\ response.status = 200

(***************************************************************************)
(* C8: when the primary fails in any way (binary missing, exception or     *)
(* timeout, non-zero exit, zero exit without output) and the fallback      *)
(* succeeds, the request answers 200 with method PyPDF2 and no error.      *)
(***************************************************************************)
PrimaryFailureModes ==
    {r \in GsRuns : ~r.available \/ r.raised \/ r.returncode # 0 \/ ~r.output_exists}

C8_FallbackOutcome ==
    (CompressDone /\ gs_run \in PrimaryFailureModes /\ pypdf_success) =>
        /\ response = FileResponse
        /\ method = "PyPDF2"
        /\ OutputPath \in files

C8_Witness ==
    /\ CompressDone
    /\ ~gs_run.available
    /\ pypdf_success
    /\ response.status = 200
    /\ method = "PyPDF2"

(***************************************************************************)
(* C9: a compress request fails only if both the primary and the fallback  *)
(* failed; when one of them succeeded the request returns an outcome.      *)
(***************************************************************************)
C9_FailsOnlyIfBothFail ==
    (CompressDone /\ response.status # 200) => (~gs_success /\ ~pypdf_success)

(***************************************************************************)
(* C10: when a path succeeded the request succeeds, the ratio is           *)
(* (1 - compressed/original) * 100 for the sizes of the request, and it    *)
(* is negative when the result is larger than the upload.                  *)
(***************************************************************************)
C10_RatioReported ==
    (CompressDone /\ (gs_success \/ pypdf_success)) =>
        /\ response.status = 200
        /\ compression_ratio.num * original_size
              = 100 * (original_size - compressed_size) * compression_ratio.den
        /\ compressed_size > original_size =>
              (compression_ratio.num < 0 /\ ratio_header < 0)

(***************************************************************************)
(* C11: the primary compressor maps low to /printer, medium to /ebook and  *)
(* high to /screen; an omitted level and any other value of the level are  *)
(* compressed with /ebook, and no value of the level is rejected.          *)
(***************************************************************************)
C11_LevelPreset ==
    /\ Compressing => response.status \notin {400, 422}
    /\ (Compressing /\ Len(calls) >= 1 /\ gs_run.available) =>
          /\ req.given = "low" => preset = "/printer"
          /\ req.given = "medium" => preset = "/ebook"
          /\ req.given = "high" => preset = "/screen"
          /\ req.given = "<omitted>" => preset = "/ebook"
          /\ req.given \notin {"low", "medium", "high", "<omitted>"} => preset = "/ebook"

C11_Witness ==
    /\ CompressDone
    /\ req.given = "ultra"
    /\ gs_run.available
    /\ preset = "/ebook"
    /\ response.status = 200

(***************************************************************************)
(* Vocabulary of the watermark claims.                                     *)
(***************************************************************************)
Watermarking == req.kind = "watermark" /\ req.upload = "ok"

\* at least one page of the request carries its watermark
WmDrawn == Watermarking /\ wi >= 1

pageWidth == env.page_size[1]

pageHeight == env.page_size[2]

contentWidth == wm_size[1]

contentHeight == wm_size[2]

\* the gap G of the tiling
G == IF wm.type = "text" THEN 100 ELSE 50

sx == contentWidth + G

sy == contentHeight + G

Origins == {draws[k] : k \in 1..Len(draws)}

\* x is the quotient a/2 rounded down
IsHalf(x, a) == 2 * x <= a /\ a <= 2 * x + 1

(***************************************************************************)
(* C12: for the five positions other than tile, text and image watermarks  *)
(* alike are drawn once, at the origin of the placement table with the     *)
(* margin 50: center is the halved free space (rounded down to a pixel),   *)
(* the corners keep 50 from their two edges; center on a 600x800 page      *)
(* with a 200x100 content is (200, 350).                                   *)
(***************************************************************************)
C12_PlacementTable ==
    (WmDrawn /\ wm.position # "tile") =>
        /\ Len(draws) = 1
        /\ LET x == draws[1][1]
               y == draws[1][2]
           IN  /\ wm.position = "center" =>
                     /\ IsHalf(x, pageWidth - contentWidth)
                     /\ IsHalf(y, pageHeight - contentHeight)
               /\ wm.position = "top-left" => (x = 50 /\ y = 50)
               /\ wm.position = "top-right" =>
                     (x = pageWidth - contentWidth - 50 /\ y = 50)
               /\ wm.position = "bottom-left" =>
                     (x = 50 /\ y = pageHeight - contentHeight - 50)
               /\ wm.position = "bottom-right" =>
                     /\ x = pageWidth - contentWidth - 50
                     /\ y = pageHeight - contentHeight - 50
               /\ (wm.position = "center" /\ env.page_size = <<600, 800>>
                      /\ wm_size = <<200, 100>>) => (x = 200 /\ y = 350)

C12_Witness ==
    /\ WmDrawn
    /\ wm.type = "text"
    /\ wm.position = "center"
    /\ env.page_size = <<600, 800>>
    /\ wm_size = <<200, 100>>
    /\ draws = << <<200, 350>> >>

(***************************************************************************)
(* C13: in tile mode the origins drawn are exactly the (col*sx, row*sy)    *)
(* with row, col >= 0, row*sy < pageHeight + sy and col*sx < pageWidth +   *)
(* sx, where sx and sy are the content size plus 100 (text) or 50          *)
(* (image); each is drawn once and nothing else is drawn.                  *)
(***************************************************************************)
C13_TileOrigins ==
    (WmDrawn /\ wm.position = "tile") =>
        /\ \A o \in Origins :
              \E col \in 0..((pageWidth + sx) \div sx), row \in 0..((pageHeight + sy) \div sy) :
                 /\ o = <<col * sx, row * sy>>
                 /\ row * sy < pageHeight + sy
                 /\ col * sx < pageWidth + sx
        /\ \A col \in 0..((pageWidth + sx) \div sx), row \in 0..((pageHeight + sy) \div sy) :
              (row * sy < pageHeight + sy /\ col * sx < pageWidth + sx)
                 => <<col * sx, row * sy>> \in Origins
        /\ Len(draws) = Cardinality(Origins)

C13_Witness ==
    /\ WmDrawn
    /\ wm.type = "image"
    /\ wm.position = "tile"
    /\ env.page_size = <<600, 800>>
    /\ wm_size = <<180, 90>>
    /\ Origins = {<<c * 230, r * 140>> : c \in 0..3, r \in 0..6}
    /\ Len(draws) = 28

(***************************************************************************)
(* C14: tile layout never omits coverage.  As claimed (C14_BoxesCoverPage):*)
(* for positive sizes every point of the page lies in some emitted box,    *)
(* a box being an origin extended by the content size.  As the code has    *)
(* it (C14_CellsCoverPage): for positive sizes every point of the page     *)
(* lies in some emitted cell, a cell being an origin extended by the       *)
(* spacing (sx, sy); the boxes themselves are G apart.  The origins form   *)
(* a full grid, so the cells cover the page when their spans cover each    *)
(* axis.                                                                   *)
(***************************************************************************)
TileDrawn == WmDrawn /\ wm.position = "tile" /\ contentWidth > 0 /\ contentHeight > 0

Xs == {o[1] : o \in Origins}

Ys == {o[2] : o \in Origins}

AxisCovered(extent, starts, size) ==
    \A p \in 0..(extent - 1) : \E o \in starts : o <= p /\ p < o + size

PositiveDrawn == WmDrawn /\ contentWidth > 0 /\ contentHeight > 0

InsidePage(o) == 0 <= o[1] /\ o[1] < pageWidth /\ 0 <= o[2] /\ o[2] < pageHeight

C15_OriginsInsidePage == PositiveDrawn => \A o \in Origins : InsidePage(o)

C15_OriginsBounded ==
    PositiveDrawn =>
        /\ wm.position = "tile" =>
              \A o \in Origins :
                  /\ 0 <= o[1] /\ o[1] < pageWidth + sx
                  /\ 0 <= o[2] /\ o[2] < pageHeight + sy
        /\ (wm.position # "tile" /\ contentWidth + 50 <= pageWidth
               /\ contentHeight + 50 <= pageHeight) =>
              \A o \in Origins : InsidePage(o)

C15_Witness ==
    /\ PositiveDrawn
    /\ wm.position = "tile"
    /\ env.page_size = <<600, 800>>
    /\ wm_size = <<200, 100>>
    /\ <<600, 800>> \in Origins

(***************************************************************************)
(* C16: an image watermark is scaled by ratio = min(maxWidth/srcWidth,     *)
(* maxHeight/srcHeight, 1) with maxWidth and maxHeight the 30% of the page *)
(* in whole pixels, and its content size is (srcWidth * ratio, srcHeight * *)
(* ratio) in whole pixels: never larger than the source, never above 30%   *)
(* of the page; a 1000x500 source on a 600x800 page becomes 180x90.        *)
(***************************************************************************)
\* the image watermark of the request went through the scaling
WmScaled ==
    /\ Watermarking
    /\ wm.type = "image"
    /\ env.pages > 0
    /\ (wi >= 1 \/ pc = "done")

srcWidth == env.image_size[1]

srcHeight == env.image_size[2]

\* n is the quotient a/b rounded down to a whole pixel (b > 0)
IsFloor(n, a, b) == n * b <= a /\ a < (n + 1) * b

C16_ImageScale ==
    WmScaled =>
        LET maxWidth == (3 * pageWidth) \div 10
            maxHeight == (3 * pageHeight) \div 10
        IN  /\ IF maxWidth >= srcWidth /\ maxHeight >= srcHeight
               THEN wm_size = <<srcWidth, srcHeight>>
               ELSE IF maxWidth * srcHeight <= maxHeight * srcWidth
               THEN /\ contentWidth = maxWidth
                    /\ IsFloor(contentHeight, srcHeight * maxWidth, srcWidth)
               ELSE /\ IsFloor(contentWidth, srcWidth * maxHeight, srcHeight)
                    /\ contentHeight = maxHeight
            /\ contentWidth <= srcWidth /\ contentHeight <= srcHeight
            /\ 10 * contentWidth <= 3 * pageWidth
            /\ 10 * contentHeight <= 3 * pageHeight
            /\ (env.image_size = <<1000, 500>> /\ env.page_size = <<600, 800>>)
                  => wm_size = <<180, 90>>

C16_Witness ==
    /\ WmScaled
    /\ env.image_size = <<1000, 500>>
    /\ env.page_size = <<600, 800>>
    /\ wm_size = <<180, 90>>
    /\ wi >= 1

(***************************************************************************)
(* C17: the layout of a page fails (InvalidGeometry, an internal error)    *)
(* exactly when the width or height of the content or of the page is not   *)
(* positive; with positive sizes it always yields a placement.             *)
(***************************************************************************)
\* the request reached the layout of its first page
WmLaidOut == Watermarking /\ env.pages > 0 /\ (wi >= 1 \/ pc = "done")

Malformed ==
    contentWidth <= 0 \/ contentHeight <= 0 \/ pageWidth <= 0 \/ pageHeight <= 0

C17_InvalidGeometry ==
    WmLaidOut =>
        /\ Malformed <=> (response.status = 500 /\ draws = <<>>)
        /\ ~Malformed => draws # <<>>

(***************************************************************************)
(* C18: the alpha drawn for an opacity in [0, 1].  As claimed              *)
(* (C18_RoundedAlpha): text glyphs, and the fully opaque pixels of an      *)
(* image watermark, carry round(255 * opacity).  As the code has it        *)
(* (C18_TruncatedAlpha): text glyphs carry 255 * opacity truncated to an   *)
(* integer, and every pixel of an image watermark carries its source       *)
(* alpha times opacity truncated to an integer.                            *)
(***************************************************************************)
\* n/d rounded to the nearest integer, a half upwards (rounding a half to
\* the even neighbour gives the same 128 for 255 * 0.5)
Round(n, d) == (2 * n + d) \div (2 * d)

C18_RoundedAlpha ==
    WmDrawn =>
        /\ wm.type = "text" => text_alpha = Round(255 * wm.opacity, 10)
        /\ wm.type = "image" => image_alpha[255] = Round(255 * wm.opacity, 10)

C18_TruncatedAlpha ==
    WmDrawn =>
        /\ wm.type = "text" => IsFloor(text_alpha, 255 * wm.opacity, 10)
        /\ wm.type = "image" =>
              \A p \in DOMAIN image_alpha : IsFloor(image_alpha[p], p * wm.opacity, 10)

C18_Witness ==
    /\ WmDrawn
    /\ wm.type = "text"
    /\ wm.opacity = 5
    /\ text_alpha = 127

(***************************************************************************)
(* C19: a watermark request of type text without text, of type image       *)
(* without image, or with an opacity outside [0, 1] is answered 400, and   *)
(* nothing of it was written or rendered: no file of the request exists,   *)
(* no page was drawn and nothing awaits deletion.                          *)
(***************************************************************************)
WmInvalid ==
    /\ req.kind = "watermark"
    /\ \/ wm.type = "text" /\ ~wm.has_text
       \/ wm.type = "image" /\ ~wm.has_image
       \/ wm.opacity < 0
       \/ wm.opacity > 10

C19_RejectedBeforeWriting ==
    WmInvalid =>
        /\ pc = "done"
        /\ response.status = 400
        /\ files = {}
        /\ scheduled = {}
        /\ wi = 0
        /\ draws = <<>>

C19_Witness ==
    /\ WmInvalid
    /\ wm.pdf_name
    /\ ~wm.too_large
    /\ wm.type = "text"
    /\ wm.has_text
    /\ wm.opacity = 11
    /\ response = HTTPException(400, "Opacity must be between 0 and 1", <<>>)
    /\ files = {}

(***************************************************************************)
(* C20: when a split, compress or watermark request ends in an error, no   *)
(* file or directory the request created exists after the response.        *)
(***************************************************************************)
EndedInError == pc = "done" /\ response.status \notin {0, 200}

C20_NoPartialState == EndedInError => (files = {} /\ dirFiles = EmptyDir)

(***************************************************************************)
(* C22: the outcome of parsing (the error, or the groups with their        *)
(* labels and indices in order) is a function of the selector alone: it    *)
(* is the same whenever the same selector is parsed and does not depend    *)
(* on the number of pages of the document.                                 *)
(***************************************************************************)
\* the first token that is not well-formed
FirstInvalid(toks) ==
    toks[CHOOSE k \in 1..Len(toks) :
            ~WellFormed(toks[k]) /\ \A j \in 1..(k - 1) : WellFormed(toks[j])]

\* two integer texts around one "-"
HasRangeShape(t) ==
    \E i \in 1..Len(t) :
        t[i] = "-" /\ IsIntegerText(Left(t, i)) /\ IsIntegerText(Right(t, i))

\* the detail of the error for a token that is not well-formed
TokenError(t) ==
    IF Contains(t, "-")
    THEN IF ~HasRangeShape(t) THEN "Invalid page range"
         ELSE LET i == CHOOSE i \in 1..Len(t) : t[i] = "-"
              IN  IF IntegerValue(Left(t, i)) < 1 \/ IntegerValue(Right(t, i)) < 1
                  THEN "Page numbers must be >= 1"
                  ELSE "Invalid range (start > end)"
    ELSE IF IsIntegerText(t) THEN "Page number must be >= 1"
    ELSE "Invalid page number"

TokenLabel(t) ==
    IF IsPageToken(t) THEN PageLabel(IntegerValue(t))
    ELSE LET i == CHOOSE i \in 1..Len(t) : IsRangeAt(t, i)
         IN  PagesLabel(IntegerValue(Left(t, i)), IntegerValue(Right(t, i)))

\* the outcome of a selector, read off the selector alone
ExpectedParse(pages) ==
    LET toks == Tokens(pages) IN
    IF IsBlank(pages)
    THEN [error |-> <<"No pages specified. Received", pages>>, groups |-> <<>>]
    ELSE IF ~AllWellFormed(toks)
    THEN [error |-> <<TokenError(FirstInvalid(toks)), FirstInvalid(toks)>>, groups |-> <<>>]
    ELSE IF toks = <<>>
    THEN [error |-> <<"No valid pages to extract", <<>>>>, groups |-> <<>>]
    ELSE [error |-> <<>>,
          groups |-> [k \in 1..Len(toks) |->
                         [label |-> TokenLabel(toks[k]), indices |-> TokenIndices(toks[k])]]]

\* the outcome of the parse of the request
ObservedParse ==
    IF InvalidSelector
    THEN [error |-> <<response.msg, response.arg>>, groups |-> <<>>]
    ELSE [error |-> <<>>, groups |-> groups]

C22_ParseIsFunctionOfSelector == Parsed => ObservedParse = ExpectedParse(req.pages)

C22_Witness ==
    /\ Parsed
    /\ req.pages = Sel_1_3_5to10
    /\ req.total = 1
    /\ Len(groups) = 3
    /\ groups[3] = [label |-> <<"p", "a", "g", "e", "s", "_", "5", "-", "1", "0">>,
                    indices |-> <<4, 5, 6, 7, 8, 9>>]

(***************************************************************************)
(* C23: whenever the selector is rejected because of a token, the detail   *)
(* of the error quotes that token verbatim, and it is the first invalid    *)
(* token from the left, whichever of the parse errors is raised.           *)
(***************************************************************************)
TokenErrors ==
    {"Invalid page range", "Page numbers must be >= 1", "Invalid range (start > end)",
     "Invalid page number", "Page number must be >= 1"}

C27_DistinctEntries ==
    (SplitDone /\ response.status = 200) =>
        LET expected == SurvivingGroups(groups, req.total) IN
        /\ Len(zip) = Len(expected)
        /\ \A k \in 1..Len(zip) : ZeroBased(zip[k].content) = expected[k]
        /\ \A i, j \in 1..Len(zip) : i # j => zip[i].name # zip[j].name

(***************************************************************************)
(* C28: the whole selector is parsed before anything is extracted: the     *)
(* extraction starts only when every token is well-formed, and when some   *)
(* token is invalid no per-group PDF and no ZIP is written, even when      *)
(* valid tokens precede it.                                                *)
(***************************************************************************)
C28_ParseBeforeExtract ==
    LET toks == Tokens(req.pages) IN
    /\ (req.kind = "split" /\ pc = "split_extract") => AllWellFormed(toks)
    /\ (Parsed /\ ~AllWellFormed(toks)) =>
          /\ generated_files = <<>>
          /\ dirFiles = EmptyDir
          /\ zip = <<>>
          /\ ZipPath \notin files

C28_Witness ==
    /\ SplitDone
    /\ req.pages = <<"1", ",", "x">>
    /\ req.total = 3
    /\ response.status = 400
    /\ response.arg = <<"x">>
    /\ dirFiles = EmptyDir
    /\ ZipPath \notin files

(***************************************************************************)
(* C29: for an image watermark with positive source width and height on a  *)
(* page of positive size, the scaled width and height are both at least 1. *)
(***************************************************************************)
C29_ScaledAtLeastOne ==
    (WmScaled /\ srcWidth > 0 /\ srcHeight > 0 /\ pageWidth > 0 /\ pageHeight > 0) =>
        (contentWidth >= 1 /\ contentHeight >= 1)

(***************************************************************************)
(* C24: a merge request with fewer than 2 uploads is answered 400; with 2  *)
(* or more, the uploads whose name does not end in ".pdf" are skipped and  *)
(* the others, when they are PDF documents, are merged in upload order     *)
(* into the one document that is returned.                                 *)
(***************************************************************************)
MergeDone == pc = "done" /\ req.kind = "merge"

PdfNamed(uploads) ==
    SelectSeq([k \in 1..Len(uploads) |-> k], LAMBDA k : uploads[k].pdf_name)

AllReadable(uploads) ==
    \A k \in 1..Len(uploads) : uploads[k].pdf_name => uploads[k].readable

C24_MergeInUploadOrder ==
    MergeDone =>
        IF Len(req.uploads) < 2
        THEN /\ response.status = 400
             /\ MergedPath \notin files
        ELSE AllReadable(req.uploads) =>
                /\ response.status = 200
                /\ merged = PdfNamed(req.uploads)
                /\ MergedPath \in files

C24_Witness ==
    /\ MergeDone
    /\ Len(req.uploads) = 3
    /\ req.uploads[1].pdf_name /\ ~req.uploads[2].pdf_name /\ req.uploads[3].pdf_name
    /\ response.status = 200
    /\ merged = <<1, 3>>
    /\ MergedPath \in files

(***************************************************************************)
(* C25: every endpoint that tests the size limit answers an upload of more *)
(* than 50 MB (with an accepted name) with status 400 "File too large",    *)
(* and nothing is converted or written.                                    *)
(***************************************************************************)
TooLargeUpload ==
    /\ pc = "done"
    /\ \/ req.kind \in Endpoints /\ req.upload = "too_large"
       \/ req.kind = "watermark" /\ wm.pdf_name /\ wm.too_large

C25_TooLargeIs400 ==
    TooLargeUpload =>
        /\ response.status = 400
        /\ (req.kind \in Endpoints => response.msg = "File too large. Max 50MB allowed.")
        /\ files = {}

(***************************************************************************)
(* C26: encrypting with permission "all" grants every flag handed to the   *)
(* encryptor, and each restricted value withdraws only the flags of the    *)
(* operations it names.                                                    *)
(***************************************************************************)
Encrypted == pc = "done" /\ req.kind = "encrypt" /\ response.status = 200

Flags == DOMAIN NoPermissions

\* the flags of the operations a permission value names
Named(permission) ==
    CASE permission = "no_print" -> {"print_lowres", "print_highres"}
      [] permission = "no_copy" -> {"extract"}
      [] permission = "no_edit" ->
            {"modify_annotation", "modify_assembly", "modify_form", "modify_other"}
      [] permission = "no_print_copy" -> {"print_lowres", "print_highres", "extract"}
      [] OTHER -> {}

C26_PermissionFlags ==
    Encrypted =>
        /\ req.permission = "all" => \A f \in Flags : allow[f]
        /\ \A f \in Flags : ~allow[f] => f \in Named(req.permission)

(***************************************************************************)
(* C30: once the cleanup tasks of a successful split, compress or          *)
(* watermark request have all run, nothing the request created is left in  *)
(* the temp directory.  (Stated as a safety property of the state in which *)
(* no task is left to run; the tasks are finitely many and each runs.)     *)
(***************************************************************************)
CleanedUp ==
    /\ pc \in {"done", "cleanup"}
    /\ req.kind \in {"split", "compress", "watermark"}
    /\ response.status = 200
    /\ tasks = <<>>

C30_NothingLeft == CleanedUp => files = {}

(***************************************************************************)
(* C21: in every interleaving of two concurrent requests, no temp path is  *)
(* written, read or deleted by both (their cleanup tasks included), and    *)
(* every read of a request returns the data the request itself wrote, as   *)
(* it does when the request runs alone.                                    *)
(***************************************************************************)
C21_OwnArtifacts ==
    /\ touched[1] \cap touched[2] = {}
    /\ \A r \in Requests : seen[r] \subseteq {r}

C21_Witness ==
    /\ \A r \in Requests : Finished(r) /\ pending[r] = <<>> /\ seen[r] = {r}
    /\ kind[1] = "split" /\ kind[2] = "split"
    /\ ids[1] = <<2>> /\ ids[2] = <<1>>
    /\ touched[1] # {} /\ touched[2] # {}

====
